---- MODULE Spec2Model ----
(***************************************************************************)
(* State-machine model of the NSM client of aws-nitro-enclaves-python-sdk. *)
(*                                                                         *)
(* Three layers are modelled:                                              *)
(*   - the native session (nsm_* functions declared in _cffi_build.py;     *)
(*     their C bodies are not part of the sources, so their behaviour is   *)
(*     taken from the specification of the PCR bank / certificate store);  *)
(*   - NsmTransport (_transport.py), which calls the native functions and  *)
(*     translates result codes into exceptions with _raise_error;          *)
(*   - NsmClient (client.py), whose public methods are the actions.        *)
(*                                                                         *)
(* Byte strings are sequences of small integers.  A digest is a term:      *)
(* ZeroDigest stands for 32 zero bytes and Sha256(p) for the SHA-256 of    *)
(* the preimage p, a sequence whose elements are digests (32-byte blocks)  *)
(* and bytes.  SHA-256 is idealised as collision free: two digests are     *)
(* equal exactly when their preimages are equal byte strings.              *)
(***************************************************************************)
EXTENDS Integers, Sequences, FiniteSets, TLC

VARIABLES
    deviceExists,   \* whether the client's device path exists on disk
    transport,      \* NsmClient._transport: 0 is None, n > 0 the n-th session
    closed,         \* closed[n]: the native `closed` flag of the n-th session
    pcrs,           \* pcrs[s]: digest of PCR slot s of the current session
    locks,          \* locks[s]: pcr_locks[s] of the current session
    certs,          \* certs[c]: cert_data/cert_len of the current session
    certificates,   \* NsmTransport._certificates of the current transport (keys)
    last,           \* the last client call: operation, arguments, outcome
    device_path,    \* NsmClient._device_path, the constructor's argument
    transport_path, \* NsmTransport._device_path of the current transport
    attest          \* a get_attestation call in progress: position and reads

vars == <<deviceExists, transport, closed, pcrs, locks, certs, certificates, last,
          device_path, transport_path, attest>>

sessionVars == <<pcrs, locks, certs, certificates>>

-----------------------------------------------------------------------------
(* Program constants.                                                      *)

PCR_SLOTS == 32
CERTIFICATE_SLOTS == 4

NSM_OK == 0
NSM_ERR_INVALID_SLOT == 1
NSM_ERR_LOCKED == 2
NSM_ERR_INVALID_LENGTH == 3
NSM_ERR_CERT_MISSING == 4
NSM_ERR_NO_MEMORY == 5
NSM_ERR_CLOSED == 6

\* Width of the uint32_t `slot` / `limit` parameters of the native functions.
UINT32_BITS == 32

(* Bounds of the model.                                                    *)

\* Sessions a client creates in one behaviour.
MaxSessions == 2
\* Successful extensions per session (sum of the hash-chain lengths).
MaxExtends == 2

-----------------------------------------------------------------------------
(* Values.                                                                 *)

PcrIndex == 0 .. (PCR_SLOTS - 1)
CertIndex == 0 .. (CERTIFICATE_SLOTS - 1)

\* Optional[bytes].
None == [some |-> FALSE, val |-> <<>>]
Some(b) == [some |-> TRUE, val |-> b]
\* Python truthiness of an Optional[bytes]: None and b"" are both falsy.
Truthy(o) == o.some /\ Len(o.val) > 0

ZeroDigest == <<"zero">>
Sha256(preimage) == <<"sha256", preimage>>

RECURSIVE ChainLen(_)
\* Number of extensions folded into a PCR digest.
ChainLen(d) == IF d[1] = "zero" THEN 0 ELSE 1 + ChainLen(d[2][1])

RECURSIVE SumChain(_, _)
SumChain(bank, n) ==
    IF n = 0 THEN 0 ELSE ChainLen(bank[n - 1]) + SumChain(bank, n - 1)
\* Successful extensions the current session has seen.
ExtendCount == SumChain(pcrs, PCR_SLOTS)

\* A Python int n is the record [hi, lo] with n = hi * Limb + lo and
\* 0 <= lo < Limb, so that 2 ^ 32 and the uint32_t range keep their width.
Limb == 2 ^ 16
PyInt(n) == [hi |-> IF n < 0 THEN -1 ELSE 0, lo |-> IF n < 0 THEN n + Limb ELSE n]
TwoPow32 == [hi |-> 2 ^ (UINT32_BITS - 16), lo |-> 0]
\* a < b
Lt(a, b) == a.hi < b.hi \/ (a.hi = b.hi /\ a.lo < b.lo)
\* The array index a value in 0 .. Limb - 1 denotes.
Index(n) == n.lo

\* Device paths.  NoPath stands for None (and for "no transport" in
\* transport_path); str(Path(p)) collapses a doubled separator.
NoPath == "None"
DEFAULT_DEVICE_PATH == "/var/run/nsm"
DevicePaths == {NoPath, "/tmp/nsm", "/tmp//nsm"}
PathStr(p) == IF p = "/tmp//nsm" THEN "/tmp/nsm" ELSE p

\* Inputs the calls are tried with.
PcrSlotInputs ==
    {PyInt(-1), PyInt(0), PyInt(PCR_SLOTS - 1), PyInt(PCR_SLOTS), TwoPow32}
LockRangeInputs ==
    {PyInt(-1), PyInt(0), PyInt(1), PyInt(PCR_SLOTS + 1), TwoPow32}
\* extend_pcr(slot, data): both payloads on the valid slots, one elsewhere.
ExtendInputs ==
    {<<s, d>> : s \in {PyInt(0), PyInt(PCR_SLOTS - 1)}, d \in {<<>>, <<1>>, <<2>>}}
    \cup {<<s, <<1>>>> : s \in PcrSlotInputs}
    \cup {<<PyInt(-1), <<>>>>}
CertSlotInputs == {PyInt(-1), PyInt(0), PyInt(CERTIFICATE_SLOTS)}
\* set_certificate(slot, certificate).
SetCertificateInputs ==
    {<<s, <<1>>>> : s \in CertSlotInputs} \cup {<<PyInt(0), <<>>>>}
AttestationInputs ==
    { [user_data |-> Some(<<1>>), public_key |-> None, nonce |-> Some(<<2>>)] }
Timestamps == {1}

\* cffi converts a Python int to uint32_t only when it is in range and
\* raises OverflowError otherwise.
FitsUint32(n) == ~Lt(n, PyInt(0)) /\ Lt(n, TwoPow32)

-----------------------------------------------------------------------------
(* The native session: struct nsm_session and the nsm_* functions.  Each   *)
(* function takes the session it is called on and returns its result code, *)
(* its output and the session as it leaves it.                             *)

\* The session the client's transport holds (there is one when transport # 0).
Cur == [closed |-> (transport # 0 /\ closed[transport]), pcrs |-> pcrs,
        locks |-> locks, certs |-> certs]

NsmSessionNew ==
    [closed |-> FALSE,
     pcrs |-> [s \in PcrIndex |-> ZeroDigest],
     locks |-> [s \in PcrIndex |-> FALSE],
     certs |-> [c \in CertIndex |-> None]]

ModuleId == "nsm-module"

NsmModuleId(s) == ModuleId

NsmSessionIsClosed(s) == s.closed

\* Result codes nsm_session_close may return: closing a closed session is
\* reported as NSM_OK or as NSM_ERR_CLOSED.
NsmSessionCloseCodes(s) ==
    IF s.closed THEN {NSM_OK, NSM_ERR_CLOSED} ELSE {NSM_OK}

NsmSessionClose(s) == [s EXCEPT !.closed = TRUE]

\* nsm_get_random: the result code; the bytes it writes are arbitrary.
NsmGetRandom(s, length) ==
    IF s.closed THEN NSM_ERR_CLOSED
    ELSE IF length = 0 THEN NSM_ERR_INVALID_LENGTH
    ELSE NSM_OK

NsmDescribePcr(s, slot) ==
    IF s.closed THEN [code |-> NSM_ERR_CLOSED, digest |-> ZeroDigest]
    ELSE IF ~Lt(slot, PyInt(PCR_SLOTS))
        THEN [code |-> NSM_ERR_INVALID_SLOT, digest |-> ZeroDigest]
    ELSE [code |-> NSM_OK, digest |-> s.pcrs[Index(slot)]]

\* nsm_extend_pcr without the lock check.
NsmExtendPcrIgnoresLock(s, slot, data) ==
    IF s.closed
        THEN [code |-> NSM_ERR_CLOSED, digest |-> ZeroDigest, sess |-> s]
    ELSE IF ~Lt(slot, PyInt(PCR_SLOTS))
        THEN [code |-> NSM_ERR_INVALID_SLOT, digest |-> ZeroDigest, sess |-> s]
    ELSE IF Len(data) = 0
        THEN [code |-> NSM_ERR_INVALID_LENGTH, digest |-> ZeroDigest, sess |-> s]
    ELSE LET new == Sha256(<<s.pcrs[Index(slot)]>> \o data)
         IN  [code |-> NSM_OK, digest |-> new,
              sess |-> [s EXCEPT !.pcrs[Index(slot)] = new]]

NsmExtendPcr(s, slot, data) ==
    IF s.closed
        THEN [code |-> NSM_ERR_CLOSED, digest |-> ZeroDigest, sess |-> s]
    ELSE IF ~Lt(slot, PyInt(PCR_SLOTS))
        THEN [code |-> NSM_ERR_INVALID_SLOT, digest |-> ZeroDigest, sess |-> s]
    ELSE IF Len(data) = 0
        THEN [code |-> NSM_ERR_INVALID_LENGTH, digest |-> ZeroDigest, sess |-> s]
    ELSE IF s.locks[Index(slot)]
        THEN [code |-> NSM_ERR_LOCKED, digest |-> ZeroDigest, sess |-> s]
    ELSE LET new == Sha256(<<s.pcrs[Index(slot)]>> \o data)
         IN  [code |-> NSM_OK, digest |-> new,
              sess |-> [s EXCEPT !.pcrs[Index(slot)] = new]]

NsmLockPcr(s, slot) ==
    IF s.closed THEN [code |-> NSM_ERR_CLOSED, sess |-> s]
    ELSE IF ~Lt(slot, PyInt(PCR_SLOTS)) THEN [code |-> NSM_ERR_INVALID_SLOT, sess |-> s]
    ELSE [code |-> NSM_OK, sess |-> [s EXCEPT !.locks[Index(slot)] = TRUE]]

NsmLockRange(s, limit) ==
    IF s.closed THEN [code |-> NSM_ERR_CLOSED, sess |-> s]
    ELSE [code |-> NSM_OK,
          sess |-> [s EXCEPT !.locks =
                       [i \in PcrIndex |-> IF Lt(PyInt(i), limit) THEN TRUE ELSE s.locks[i]]]]

NsmLockedFlags(s) ==
    IF s.closed THEN [code |-> NSM_ERR_CLOSED, flags |-> s.locks]
    ELSE [code |-> NSM_OK, flags |-> s.locks]

NsmSetCertificate(s, slot, data) ==
    IF s.closed THEN [code |-> NSM_ERR_CLOSED, sess |-> s]
    ELSE IF ~Lt(slot, PyInt(CERTIFICATE_SLOTS))
        THEN [code |-> NSM_ERR_INVALID_SLOT, sess |-> s]
    ELSE IF Len(data) = 0 THEN [code |-> NSM_ERR_INVALID_LENGTH, sess |-> s]
    ELSE [code |-> NSM_OK, sess |-> [s EXCEPT !.certs[Index(slot)] = Some(data)]]

NsmDescribeCertificate(s, slot) ==
    IF s.closed THEN [code |-> NSM_ERR_CLOSED, data |-> <<>>]
    ELSE IF ~Lt(slot, PyInt(CERTIFICATE_SLOTS))
        THEN [code |-> NSM_ERR_INVALID_SLOT, data |-> <<>>]
    ELSE IF ~s.certs[Index(slot)].some
        THEN [code |-> NSM_ERR_CERT_MISSING, data |-> <<>>]
    ELSE [code |-> NSM_OK, data |-> s.certs[Index(slot)].val]

NsmRemoveCertificate(s, slot) ==
    IF s.closed THEN [code |-> NSM_ERR_CLOSED, sess |-> s]
    ELSE IF ~Lt(slot, PyInt(CERTIFICATE_SLOTS))
        THEN [code |-> NSM_ERR_INVALID_SLOT, sess |-> s]
    ELSE [code |-> NSM_OK, sess |-> [s EXCEPT !.certs[Index(slot)] = None]]

-----------------------------------------------------------------------------
(* _transport.py: _raise_error and NsmTransport.  An exception is the name *)
(* of its class; "ok" is a normal return.                                  *)

\* _raise_error without its NSM_ERR_LOCKED branch: the code falls through to
\* the generic NsmError.
RaiseErrorNoLockedBranch(code, context) ==
    IF code = NSM_OK THEN "ok"
    ELSE IF code = NSM_ERR_CLOSED THEN "NsmSessionClosedError"
    ELSE IF code = NSM_ERR_INVALID_LENGTH THEN
        IF context = "random" THEN "NsmRandomError"
        ELSE IF context = "certificate" THEN "NsmCertificateError"
        ELSE "NsmError"
    ELSE IF code = NSM_ERR_CERT_MISSING THEN "NsmCertificateError"
    ELSE IF code = NSM_ERR_INVALID_SLOT THEN
        IF context = "pcr" THEN "NsmInvalidPcrError" ELSE "NsmCertificateError"
    ELSE "NsmError"

\* _raise_error without its NSM_ERR_CLOSED branch.
RaiseErrorNoClosedBranch(code, context) ==
    IF code = NSM_OK THEN "ok"
    ELSE IF code = NSM_ERR_INVALID_LENGTH THEN
        IF context = "random" THEN "NsmRandomError"
        ELSE IF context = "certificate" THEN "NsmCertificateError"
        ELSE "NsmError"
    ELSE IF code = NSM_ERR_LOCKED THEN "NsmPcrLockedError"
    ELSE IF code = NSM_ERR_CERT_MISSING THEN "NsmCertificateError"
    ELSE IF code = NSM_ERR_INVALID_SLOT THEN
        IF context = "pcr" THEN "NsmInvalidPcrError" ELSE "NsmCertificateError"
    ELSE "NsmError"

\* _raise_error without its NSM_ERR_CERT_MISSING branch.
RaiseErrorNoCertMissingBranch(code, context) ==
    IF code = NSM_OK THEN "ok"
    ELSE IF code = NSM_ERR_CLOSED THEN "NsmSessionClosedError"
    ELSE IF code = NSM_ERR_INVALID_LENGTH THEN
        IF context = "random" THEN "NsmRandomError"
        ELSE IF context = "certificate" THEN "NsmCertificateError"
        ELSE "NsmError"
    ELSE IF code = NSM_ERR_LOCKED THEN "NsmPcrLockedError"
    ELSE IF code = NSM_ERR_INVALID_SLOT THEN
        IF context = "pcr" THEN "NsmInvalidPcrError" ELSE "NsmCertificateError"
    ELSE "NsmError"

RaiseError(code, context) ==
    IF code = NSM_OK THEN "ok"
    ELSE IF code = NSM_ERR_CLOSED THEN "NsmSessionClosedError"
    ELSE IF code = NSM_ERR_NO_MEMORY THEN "NsmError"
    ELSE IF code = NSM_ERR_INVALID_LENGTH THEN
        IF context = "random" THEN "NsmRandomError"
        ELSE IF context = "certificate" THEN "NsmCertificateError"
        ELSE "NsmError"
    ELSE IF code = NSM_ERR_LOCKED THEN "NsmPcrLockedError"
    ELSE IF code = NSM_ERR_CERT_MISSING THEN "NsmCertificateError"
    ELSE IF code = NSM_ERR_INVALID_SLOT THEN
        IF context = "pcr" THEN "NsmInvalidPcrError" ELSE "NsmCertificateError"
    ELSE "NsmError"

\* The exceptions derived from NsmError (errors.py).
NsmErrors ==
    {"NsmError", "NsmDeviceNotFoundError", "NsmSessionClosedError",
     "NsmRandomError", "NsmInvalidPcrError", "NsmCertificateError",
     "NsmAttestationError", "NsmPcrLockedError"}

\* A transport: the native session and the _certificates dictionary (keys).
CurTransport == [sess |-> Cur, certificates |-> certificates]

TransportIsClosed(t) == NsmSessionIsClosed(t.sess)

\* close() that accepts NSM_OK only.
TransportCloseStrict(t, code) ==
    [res |-> IF code # NSM_OK THEN RaiseError(code, "general") ELSE "ok",
     t |-> [t EXCEPT !.sess = NsmSessionClose(t.sess)]]

\* close(): the outcome for the result code `code` of nsm_session_close.
TransportClose(t, code) ==
    [res |-> IF code \notin {NSM_OK, NSM_ERR_CLOSED}
                THEN RaiseError(code, "general") ELSE "ok",
     t |-> [t EXCEPT !.sess = NsmSessionClose(t.sess)]]

\* get_random: the outcome; the value returned is `length` arbitrary bytes.
TransportGetRandom(t, length) == RaiseError(NsmGetRandom(t.sess, length), "random")

TransportLockedFlags(t) ==
    LET r == NsmLockedFlags(t.sess)
    IN  [res |-> RaiseError(r.code, "pcr"), flags |-> r.flags]

TransportSlotLocked(t, slot) ==
    LET f == TransportLockedFlags(t)
    IN  IF f.res # "ok" THEN [res |-> f.res, locked |-> FALSE]
        ELSE IF Lt(slot, PyInt(0)) \/ ~Lt(slot, PyInt(PCR_SLOTS))
            THEN [res |-> "NsmInvalidPcrError", locked |-> FALSE]
        ELSE [res |-> "ok", locked |-> f.flags[Index(slot)]]

TransportDescribePcrRaw(t, slot) ==
    IF ~FitsUint32(slot)
        THEN [res |-> "OverflowError", digest |-> ZeroDigest, locked |-> FALSE]
    ELSE
    LET r == NsmDescribePcr(t.sess, slot)
        e == RaiseError(r.code, "pcr")
        l == TransportSlotLocked(t, slot)
    IN  IF e # "ok" THEN [res |-> e, digest |-> ZeroDigest, locked |-> FALSE]
        ELSE IF l.res # "ok"
            THEN [res |-> l.res, digest |-> ZeroDigest, locked |-> FALSE]
        ELSE [res |-> "ok", digest |-> r.digest, locked |-> l.locked]

TransportDescribePcr(t, slot) ==
    LET r == TransportDescribePcrRaw(t, slot)
    IN  [res |-> r.res, digest |-> r.digest]

TransportExtendPcr(t, slot, data) ==
    IF ~FitsUint32(slot)
        THEN [res |-> "OverflowError", digest |-> ZeroDigest, t |-> t]
    ELSE
    LET r == NsmExtendPcr(t.sess, slot, data)
        e == RaiseError(r.code, "pcr")
    IN  IF e # "ok" THEN [res |-> e, digest |-> ZeroDigest, t |-> t]
        ELSE [res |-> "ok", digest |-> r.digest, t |-> [t EXCEPT !.sess = r.sess]]

TransportLockPcr(t, slot) ==
    IF ~FitsUint32(slot) THEN [res |-> "OverflowError", t |-> t]
    ELSE
    LET r == NsmLockPcr(t.sess, slot)
        e == RaiseError(r.code, "pcr")
    IN  IF e # "ok" THEN [res |-> e, t |-> t]
        ELSE [res |-> "ok", t |-> [t EXCEPT !.sess = r.sess]]

TransportLockPcrs(t, lock_range) ==
    IF ~FitsUint32(lock_range) THEN [res |-> "OverflowError", t |-> t]
    ELSE
    LET r == NsmLockRange(t.sess, lock_range)
        e == RaiseError(r.code, "pcr")
    IN  IF e # "ok" THEN [res |-> e, t |-> t]
        ELSE [res |-> "ok", t |-> [t EXCEPT !.sess = r.sess]]

\* set_certificate that records the slot before it looks at the result code.
TransportSetCertificateRecordsFirst(t, slot, certificate) ==
    IF ~FitsUint32(slot) THEN [res |-> "OverflowError", t |-> t]
    ELSE
    LET r == NsmSetCertificate(t.sess, slot, certificate)
        e == RaiseError(r.code, "certificate")
    IN  [res |-> e,
         t |-> [sess |-> r.sess,
                certificates |-> t.certificates \cup {Index(slot)}]]

TransportSetCertificate(t, slot, certificate) ==
    IF ~FitsUint32(slot) THEN [res |-> "OverflowError", t |-> t]
    ELSE
    LET r == NsmSetCertificate(t.sess, slot, certificate)
        e == RaiseError(r.code, "certificate")
    IN  IF e # "ok" THEN [res |-> e, t |-> t]
        ELSE [res |-> "ok",
              t |-> [sess |-> r.sess,
                     certificates |-> t.certificates \cup {Index(slot)}]]

TransportDescribeCertificate(t, slot) ==
    IF ~FitsUint32(slot) THEN [res |-> "OverflowError", data |-> <<>>, t |-> t]
    ELSE
    LET r == NsmDescribeCertificate(t.sess, slot)
        e == RaiseError(r.code, "certificate")
    IN  IF e # "ok" THEN [res |-> e, data |-> <<>>, t |-> t]
        ELSE [res |-> "ok", data |-> r.data,
              t |-> [t EXCEPT !.certificates = t.certificates \cup {Index(slot)}]]

\* remove_certificate that leaves the slot in _certificates.
TransportRemoveCertificateKeepsRecord(t, slot) ==
    IF ~FitsUint32(slot) THEN [res |-> "OverflowError", t |-> t]
    ELSE
    LET r == NsmRemoveCertificate(t.sess, slot)
        e == RaiseError(r.code, "certificate")
    IN  IF e # "ok" THEN [res |-> e, t |-> t]
        ELSE [res |-> "ok", t |-> [t EXCEPT !.sess = r.sess]]

TransportRemoveCertificate(t, slot) ==
    IF ~FitsUint32(slot) THEN [res |-> "OverflowError", t |-> t]
    ELSE
    LET r == NsmRemoveCertificate(t.sess, slot)
        e == RaiseError(r.code, "certificate")
    IN  IF e # "ok" THEN [res |-> e, t |-> t]
        ELSE [res |-> "ok",
              t |-> [sess |-> r.sess,
                     certificates |-> t.certificates \ {Index(slot)}]]

TransportModuleId(t) == [res |-> "ok", id |-> NsmModuleId(t.sess)]

TransportDescribeNsm(t) ==
    LET m == TransportModuleId(t)
        f == TransportLockedFlags(t)
    IN  IF m.res # "ok" THEN [res |-> m.res, ret |-> None]
        ELSE IF f.res # "ok" THEN [res |-> f.res, ret |-> None]
        ELSE [res |-> "ok",
              ret |-> [module_id |-> m.id,
                       pcr_slots |-> PCR_SLOTS,
                       certificate_slots |-> CERTIFICATE_SLOTS,
                       locked_pcrs |-> {i \in DOMAIN f.flags : f.flags[i]},
                       certificates |-> Cardinality(t.certificates)]]

RECURSIVE FirstCertificateFrom(_, _)
\* The loop of _first_certificate from `slot` on.
FirstCertificateFrom(t, slot) ==
    IF slot >= CERTIFICATE_SLOTS THEN [res |-> "ok", certificate |-> None]
    ELSE LET r == NsmDescribeCertificate(t.sess, PyInt(slot))
         IN  IF r.code = NSM_OK
                 THEN [res |-> "ok", certificate |-> Some(r.data)]
             ELSE IF r.code = NSM_ERR_CERT_MISSING
                 THEN FirstCertificateFrom(t, slot + 1)
             ELSE [res |-> RaiseError(r.code, "certificate"),
                   certificate |-> None]

\* _first_certificate that looks at slot 0 only.
TransportFirstCertificateSlotZero(t) ==
    LET r == NsmDescribeCertificate(t.sess, PyInt(0))
    IN  IF r.code = NSM_OK THEN [res |-> "ok", certificate |-> Some(r.data)]
        ELSE IF r.code = NSM_ERR_CERT_MISSING
            THEN [res |-> "ok", certificate |-> None]
        ELSE [res |-> RaiseError(r.code, "certificate"), certificate |-> None]

TransportFirstCertificate(t) == FirstCertificateFrom(t, 0)

\* _attestation_digest that leaves the last PCR value out of the hash.
AttestationDigestSkipsLast(pcr_values, user_data, public_key, nonce) ==
    Sha256(SubSeq(pcr_values, 1, Len(pcr_values) - 1)
           \o (IF Truthy(user_data) THEN user_data.val ELSE <<>>)
           \o (IF Truthy(public_key) THEN public_key.val ELSE <<>>)
           \o (IF Truthy(nonce) THEN nonce.val ELSE <<>>))

\* _attestation_digest that hashes public_key before user_data.
AttestationDigestKeyFirst(pcr_values, user_data, public_key, nonce) ==
    Sha256(pcr_values
           \o (IF Truthy(public_key) THEN public_key.val ELSE <<>>)
           \o (IF Truthy(user_data) THEN user_data.val ELSE <<>>)
           \o (IF Truthy(nonce) THEN nonce.val ELSE <<>>))

\* hasher.update over the PCR values in order, then each truthy input.
AttestationDigest(pcr_values, user_data, public_key, nonce) ==
    Sha256(pcr_values
           \o (IF Truthy(user_data) THEN user_data.val ELSE <<>>)
           \o (IF Truthy(public_key) THEN public_key.val ELSE <<>>)
           \o (IF Truthy(nonce) THEN nonce.val ELSE <<>>))

TransportGetAttestation(t, user_data, public_key, nonce, now) ==
    IF TransportIsClosed(t)
        THEN [res |-> "NsmSessionClosedError", cause |-> "none", payload |-> None]
    ELSE
    LET read == [i \in PcrIndex |-> TransportDescribePcr(t, PyInt(i))]
        failed == {i \in PcrIndex : read[i].res # "ok"}
        first == CHOOSE i \in failed : \A j \in failed : i <= j
        flags == TransportLockedFlags(t)
        cert == TransportFirstCertificate(t)
        module == TransportModuleId(t)
    IN  IF failed # {} /\ read[first].res \in NsmErrors
            THEN [res |-> "NsmAttestationError", cause |-> read[first].res,
                  payload |-> None]
        ELSE IF failed # {}
            THEN [res |-> read[first].res, cause |-> "none", payload |-> None]
        ELSE IF flags.res # "ok"
            THEN [res |-> "NsmAttestationError", cause |-> flags.res,
                  payload |-> None]
        ELSE IF module.res # "ok"
            THEN [res |-> module.res, cause |-> "none", payload |-> None]
        ELSE IF cert.res # "ok"
            THEN [res |-> cert.res, cause |-> "none", payload |-> None]
        ELSE [res |-> "ok", cause |-> "none",
              payload |->
                [module_id |-> module.id,
                 timestamp |-> now,
                 digest |-> AttestationDigest(
                     [k \in 1 .. PCR_SLOTS |-> read[k - 1].digest],
                     user_data, public_key, nonce),
                 pcrs |-> [i \in PcrIndex |-> read[i].digest],
                 locked_pcrs |-> {i \in DOMAIN flags.flags : flags.flags[i]},
                 certificate |-> cert.certificate,
                 cabundle |-> None,
                 user_data |-> user_data,
                 public_key |-> public_key,
                 nonce |-> nonce]]

-----------------------------------------------------------------------------
(* types.py.                                                               *)

PcrValue(slot, digest, locked) ==
    [slot |-> slot, digest |-> digest, locked |-> locked]

\* from_payload that tags no PCR value as locked.
FromPayloadUntagged(payload) ==
    LET locked_slots == payload.locked_pcrs
    IN  [module_id |-> payload.module_id,
         timestamp |-> payload.timestamp,
         digest |-> payload.digest,
         pcrs |-> [slot \in DOMAIN payload.pcrs |->
                      PcrValue(PyInt(slot), payload.pcrs[slot], FALSE)],
         certificate |-> payload.certificate,
         cabundle |-> payload.cabundle,
         user_data |-> payload.user_data,
         public_key |-> payload.public_key,
         nonce |-> payload.nonce,
         locked_pcrs |-> locked_slots]

\* AttestationDocument.from_payload.
FromPayload(payload) ==
    LET locked_slots == payload.locked_pcrs
    IN  [module_id |-> payload.module_id,
         timestamp |-> payload.timestamp,
         digest |-> payload.digest,
         pcrs |-> [slot \in DOMAIN payload.pcrs |->
                      PcrValue(PyInt(slot), payload.pcrs[slot], slot \in locked_slots)],
         certificate |-> payload.certificate,
         cabundle |-> payload.cabundle,
         user_data |-> payload.user_data,
         public_key |-> payload.public_key,
         nonce |-> payload.nonce,
         locked_pcrs |-> locked_slots]

-----------------------------------------------------------------------------
(* client.py: NsmClient.  Every public method is an action; it records the *)
(* call and its outcome in `last` and installs the transport it leaves.    *)

Call(op, arg, data, res, ret) ==
    [op |-> op, arg |-> arg, data |-> data, res |-> res, ret |-> ret]

\* The outcome of a call that raised `e` before it changed anything.
Raised(e) == [res |-> e, ret |-> None, t |-> CurTransport]

\* No get_attestation call is in progress.
AttestIdle ==
    [pc |-> "idle", inputs |-> [user_data |-> None, public_key |-> None,
                                nonce |-> None],
     pcrs |-> <<>>, digest |-> ZeroDigest, locked |-> {}, module |-> "",
     slot |-> 0, seen |-> {}]

\* What a document shows of a session: its PCR digests, lock flags and
\* certificate slots.
SessionState(s) == [pcrs |-> s.pcrs, locks |-> s.locks, certs |-> s.certs]

\* The call in progress, if there is one, with the state the session is
\* left in by a call of another caller added to those it has passed through.
Observed(t) ==
    IF attest.pc = "idle" THEN attest
    ELSE [attest EXCEPT !.seen = @ \cup {SessionState(t.sess)}]

\* The client's state after a call that left its transport as `t`.
Install(t) ==
    /\ closed' = IF transport = 0 THEN closed
                 ELSE [closed EXCEPT ![transport] = t.sess.closed]
    /\ pcrs' = t.sess.pcrs
    /\ locks' = t.sess.locks
    /\ certs' = t.sess.certs
    /\ certificates' = t.certificates
    /\ attest' = Observed(t)
    /\ UNCHANGED <<deviceExists, transport, device_path, transport_path>>

\* _require_transport that lets every call through.
RequireTransportLetsThrough == "ok"

\* _require_transport: the exception it raises, or "ok".
RequireTransport == IF transport = 0 THEN "NsmError" ELSE "ok"

\* is_open that does not ask the transport whether it is closed.
IsOpenIgnoresClosed == transport # 0

IsOpen == transport # 0 /\ ~TransportIsClosed(CurTransport)

\* NsmTransport.__init__ that does not look for the device path.
TransportInitNoDeviceCheck ==
    [res |-> "ok", t |-> [sess |-> NsmSessionNew, certificates |-> {}],
     device_path |-> PathStr(IF device_path = NoPath THEN DEFAULT_DEVICE_PATH
                             ELSE device_path)]

\* NsmTransport.__init__ that shares one _certificates dictionary among all
\* transports instead of giving each its own.
TransportInitSharesCertificates ==
    IF ~deviceExists THEN [res |-> "NsmDeviceNotFoundError"]
    ELSE [res |-> "ok",
          t |-> [sess |-> NsmSessionNew, certificates |-> certificates],
          device_path |-> PathStr(IF device_path = NoPath
                                  THEN DEFAULT_DEVICE_PATH ELSE device_path)]

\* NsmTransport.__init__ for the client's device path.
TransportInit ==
    IF ~deviceExists THEN [res |-> "NsmDeviceNotFoundError"]
    ELSE [res |-> "ok", t |-> [sess |-> NsmSessionNew, certificates |-> {}],
          device_path |-> PathStr(IF device_path = NoPath
                                  THEN DEFAULT_DEVICE_PATH ELSE device_path)]

\* open() that creates a session whether the client is open or not.
ClientOpenAlwaysNew ==
    LET new == TransportInit
    IN  IF new.res # "ok"
        THEN /\ last' = Call("open", None, <<>>, new.res, [was_open |-> IsOpen])
             /\ UNCHANGED <<deviceExists, transport, closed, sessionVars,
                             device_path, transport_path, attest>>
        ELSE /\ Len(closed) < MaxSessions
             /\ transport' = Len(closed) + 1
             /\ closed' = Append(closed, new.t.sess.closed)
             /\ pcrs' = new.t.sess.pcrs
             /\ locks' = new.t.sess.locks
             /\ certs' = new.t.sess.certs
             /\ certificates' = new.t.certificates
             /\ last' = Call("open", None, <<>>, "ok", [was_open |-> IsOpen])
             /\ transport_path' = new.device_path
             /\ UNCHANGED <<deviceExists, device_path, attest>>

\* open() that reopens the session it holds instead of creating one.
ClientOpenReopens ==
    IF transport = 0
    THEN LET new == TransportInit
         IN  IF new.res # "ok"
             THEN /\ last' = Call("open", None, <<>>, new.res, [was_open |-> IsOpen])
                  /\ UNCHANGED <<deviceExists, transport, closed, sessionVars,
                             device_path, transport_path, attest>>
             ELSE /\ Len(closed) < MaxSessions
                  /\ transport' = Len(closed) + 1
                  /\ closed' = Append(closed, new.t.sess.closed)
                  /\ pcrs' = new.t.sess.pcrs
                  /\ locks' = new.t.sess.locks
                  /\ certs' = new.t.sess.certs
                  /\ certificates' = new.t.certificates
                  /\ last' = Call("open", None, <<>>, "ok", [was_open |-> IsOpen])
                  /\ transport_path' = new.device_path
                  /\ UNCHANGED <<deviceExists, device_path, attest>>
    ELSE /\ closed' = [closed EXCEPT ![transport] = FALSE]
         /\ last' = Call("open", None, <<>>, "ok", [was_open |-> IsOpen])
         /\ UNCHANGED <<deviceExists, transport, sessionVars,
                     device_path, transport_path, attest>>

ClientOpen ==
    IF transport = 0 \/ TransportIsClosed(CurTransport)
    THEN LET new == TransportInit
         IN  IF new.res # "ok"
             THEN /\ last' = Call("open", None, <<>>, new.res, [was_open |-> IsOpen])
                  /\ UNCHANGED <<deviceExists, transport, closed, sessionVars,
                             device_path, transport_path, attest>>
             ELSE /\ Len(closed) < MaxSessions
                  /\ transport' = Len(closed) + 1
                  /\ closed' = Append(closed, new.t.sess.closed)
                  /\ pcrs' = new.t.sess.pcrs
                  /\ locks' = new.t.sess.locks
                  /\ certs' = new.t.sess.certs
                  /\ certificates' = new.t.certificates
                  /\ last' = Call("open", None, <<>>, "ok", [was_open |-> IsOpen])
                  /\ transport_path' = new.device_path
                  /\ UNCHANGED <<deviceExists, device_path, attest>>
    ELSE /\ last' = Call("open", None, <<>>, "ok", [was_open |-> IsOpen])
         /\ UNCHANGED <<deviceExists, transport, closed, sessionVars,
                             device_path, transport_path, attest>>

ClientClose ==
    IF transport # 0 /\ ~TransportIsClosed(CurTransport)
    THEN \E code \in NsmSessionCloseCodes(Cur) :
            LET out == TransportClose(CurTransport, code)
            IN  /\ Install(out.t)
                /\ last' = Call("close", None, <<>>, out.res, [code |-> code])
    ELSE /\ last' = Call("close", None, <<>>, "ok", None)
         /\ UNCHANGED <<deviceExists, transport, closed, sessionVars,
                             device_path, transport_path, attest>>

\* NsmTransport.close() called on the transport the client holds.
TransportCloseCall ==
    /\ transport # 0
    /\ \E code \in NsmSessionCloseCodes(Cur) :
          LET out == TransportClose(CurTransport, code)
          IN  /\ Install(out.t)
              /\ last' = Call("transport_close", None, <<>>, out.res,
                              [code |-> code])

\* device_path that answers from the constructor's argument alone.
DevicePathOfClient ==
    IF device_path # NoPath THEN device_path ELSE DEFAULT_DEVICE_PATH

\* The device_path property.
DevicePath ==
    IF transport = 0
        THEN IF device_path # NoPath THEN device_path ELSE DEFAULT_DEVICE_PATH
    ELSE transport_path

ClientDevicePath ==
    /\ last' = Call("device_path", None, <<>>, "ok", [path |-> DevicePath])
    /\ UNCHANGED <<deviceExists, transport, closed, sessionVars,
                   device_path, transport_path, attest>>

\* The is_open property, read by a caller.
ClientIsOpen ==
    /\ last' = Call("is_open", None, <<>>, "ok", [value |-> IsOpen])
    /\ UNCHANGED <<deviceExists, transport, closed, sessionVars,
                   device_path, transport_path, attest>>

\* __enter__: open(), then `return self`.
ClientEnter ==
    IF transport = 0 \/ TransportIsClosed(CurTransport)
    THEN LET new == TransportInit
         IN  IF new.res # "ok"
             THEN /\ last' = Call("__enter__", None, <<>>, new.res, None)
                  /\ UNCHANGED <<deviceExists, transport, closed, sessionVars,
                             device_path, transport_path, attest>>
             ELSE /\ Len(closed) < MaxSessions
                  /\ transport' = Len(closed) + 1
                  /\ closed' = Append(closed, new.t.sess.closed)
                  /\ pcrs' = new.t.sess.pcrs
                  /\ locks' = new.t.sess.locks
                  /\ certs' = new.t.sess.certs
                  /\ certificates' = new.t.certificates
                  /\ last' = Call("__enter__", None, <<>>, "ok",
                                  [returned |-> "self", was_open |-> IsOpen])
                  /\ transport_path' = new.device_path
                  /\ UNCHANGED <<deviceExists, device_path, attest>>
    ELSE /\ last' = Call("__enter__", None, <<>>, "ok",
                         [returned |-> "self", was_open |-> IsOpen])
         /\ UNCHANGED <<deviceExists, transport, closed, sessionVars,
                             device_path, transport_path, attest>>

\* __exit__(exc_type, exc, tb): close(), then `return None`, so that an
\* exception of the block (exc = TRUE) is not suppressed.
\* __exit__ that closes the client only when the block ended normally.
ClientExitKeepsOpenOnError(exc) ==
    IF ~exc /\ transport # 0 /\ ~TransportIsClosed(CurTransport)
    THEN \E code \in NsmSessionCloseCodes(Cur) :
            LET out == TransportClose(CurTransport, code)
            IN  /\ Install(out.t)
                /\ last' = Call("__exit__", [exc |-> exc], <<>>, out.res,
                                [suppress |-> FALSE, was_open |-> TRUE])
    ELSE /\ last' = Call("__exit__", [exc |-> exc], <<>>, "ok",
                         [suppress |-> FALSE, was_open |-> IsOpen])
         /\ UNCHANGED <<deviceExists, transport, closed, sessionVars,
                             device_path, transport_path, attest>>

ClientExit(exc) ==
    IF transport # 0 /\ ~TransportIsClosed(CurTransport)
    THEN \E code \in NsmSessionCloseCodes(Cur) :
            LET out == TransportClose(CurTransport, code)
            IN  /\ Install(out.t)
                /\ last' = Call("__exit__", [exc |-> exc], <<>>, out.res,
                                [suppress |-> FALSE, was_open |-> TRUE])
    ELSE /\ last' = Call("__exit__", [exc |-> exc], <<>>, "ok",
                         [suppress |-> FALSE, was_open |-> FALSE])
         /\ UNCHANGED <<deviceExists, transport, closed, sessionVars,
                             device_path, transport_path, attest>>

GetRandom(length) ==
    IF length <= 0 THEN Raised("NsmRandomError")
    ELSE IF RequireTransport # "ok" THEN Raised(RequireTransport)
    ELSE LET e == TransportGetRandom(CurTransport, length)
         IN  [res |-> e,
              ret |-> IF e = "ok" THEN [length |-> length] ELSE None,
              t |-> CurTransport]

ClientGetRandom(length) ==
    LET out == GetRandom(length)
    IN  /\ Install(out.t)
        /\ last' = Call("get_random", [length |-> length], <<>>, out.res, out.ret)

DescribePcr(slot) ==
    IF Lt(slot, PyInt(0)) THEN Raised("NsmError")
    ELSE IF RequireTransport # "ok" THEN Raised(RequireTransport)
    ELSE LET raw == TransportDescribePcrRaw(CurTransport, slot)
         IN  IF raw.res # "ok" THEN Raised(raw.res)
             ELSE [res |-> "ok", ret |-> PcrValue(slot, raw.digest, raw.locked),
                   t |-> CurTransport]

ClientDescribePcr(slot) ==
    LET out == DescribePcr(slot)
    IN  /\ Install(out.t)
        /\ last' = Call("describe_pcr", slot, <<>>, out.res, out.ret)

\* extend_pcr that returns the digest read before the extension.
ExtendPcrReturnsOld(slot, data) ==
    IF Lt(slot, PyInt(0)) THEN Raised("NsmError")
    ELSE IF Len(data) = 0 THEN Raised("NsmError")
    ELSE IF RequireTransport # "ok" THEN Raised(RequireTransport)
    ELSE LET old == TransportDescribePcrRaw(CurTransport, slot)
             ext == TransportExtendPcr(CurTransport, slot, data)
         IN  IF ext.res # "ok" THEN [res |-> ext.res, ret |-> None, t |-> ext.t]
             ELSE [res |-> "ok", ret |-> PcrValue(slot, old.digest, old.locked),
                   t |-> ext.t]

\* extend_pcr that takes empty data for an extension by nothing and answers
\* with the slot as it is.
ExtendPcrEmptyIsNoOp(slot, data) ==
    IF Lt(slot, PyInt(0)) THEN Raised("NsmError")
    ELSE IF RequireTransport # "ok" THEN Raised(RequireTransport)
    ELSE IF Len(data) = 0
        THEN LET raw == TransportDescribePcrRaw(CurTransport, slot)
             IN  IF raw.res # "ok" THEN Raised(raw.res)
                 ELSE [res |-> "ok",
                       ret |-> PcrValue(slot, raw.digest, raw.locked),
                       t |-> CurTransport]
    ELSE LET ext == TransportExtendPcr(CurTransport, slot, data)
             raw == TransportDescribePcrRaw(ext.t, slot)
         IN  IF ext.res # "ok" THEN [res |-> ext.res, ret |-> None, t |-> ext.t]
             ELSE IF raw.res # "ok"
                 THEN [res |-> raw.res, ret |-> None, t |-> ext.t]
             ELSE [res |-> "ok", ret |-> PcrValue(slot, ext.digest, raw.locked),
                   t |-> ext.t]

ExtendPcr(slot, data) ==
    IF Lt(slot, PyInt(0)) THEN Raised("NsmError")
    ELSE IF Len(data) = 0 THEN Raised("NsmError")
    ELSE IF RequireTransport # "ok" THEN Raised(RequireTransport)
    ELSE LET ext == TransportExtendPcr(CurTransport, slot, data)
             raw == TransportDescribePcrRaw(ext.t, slot)
         IN  IF ext.res # "ok" THEN [res |-> ext.res, ret |-> None, t |-> ext.t]
             ELSE IF raw.res # "ok"
                 THEN [res |-> raw.res, ret |-> None, t |-> ext.t]
             ELSE [res |-> "ok", ret |-> PcrValue(slot, ext.digest, raw.locked),
                   t |-> ext.t]

ClientExtendPcr(slot, data) ==
    LET out == ExtendPcr(slot, data)
    IN  /\ out.res = "ok" => ExtendCount < MaxExtends
        /\ Install(out.t)
        /\ last' = Call("extend_pcr", slot, data, out.res, out.ret)

LockPcr(slot) ==
    IF Lt(slot, PyInt(0)) THEN Raised("NsmError")
    ELSE IF RequireTransport # "ok" THEN Raised(RequireTransport)
    ELSE LET r == TransportLockPcr(CurTransport, slot)
         IN  [res |-> r.res,
              ret |-> IF r.res = "ok" THEN [value |-> TRUE] ELSE None,
              t |-> r.t]

ClientLockPcr(slot) ==
    LET out == LockPcr(slot)
    IN  /\ Install(out.t)
        /\ last' = Call("lock_pcr", slot, <<>>, out.res, out.ret)

LockPcrs(lock_range) ==
    IF Lt(lock_range, PyInt(0)) THEN Raised("NsmError")
    ELSE IF RequireTransport # "ok" THEN Raised(RequireTransport)
    ELSE LET r == TransportLockPcrs(CurTransport, lock_range)
         IN  [res |-> r.res,
              ret |-> IF r.res = "ok" THEN [value |-> TRUE] ELSE None,
              t |-> r.t]

ClientLockPcrs(lock_range) ==
    LET out == LockPcrs(lock_range)
    IN  /\ Install(out.t)
        /\ last' = Call("lock_pcrs", lock_range, <<>>, out.res, out.ret)

\* set_certificate without the client's check of the payload.
SetCertificateNoPayloadCheck(slot, certificate) ==
    IF Lt(slot, PyInt(0)) THEN Raised("NsmError")
    ELSE IF RequireTransport # "ok" THEN Raised(RequireTransport)
    ELSE LET r == TransportSetCertificate(CurTransport, slot, certificate)
         IN  [res |-> r.res, ret |-> None, t |-> r.t]

SetCertificate(slot, certificate) ==
    IF Lt(slot, PyInt(0)) THEN Raised("NsmError")
    ELSE IF Len(certificate) = 0 THEN Raised("NsmError")
    ELSE IF RequireTransport # "ok" THEN Raised(RequireTransport)
    ELSE LET r == TransportSetCertificate(CurTransport, slot, certificate)
         IN  [res |-> r.res, ret |-> None, t |-> r.t]

ClientSetCertificate(slot, certificate) ==
    LET out == SetCertificate(slot, certificate)
    IN  /\ Install(out.t)
        /\ last' = Call("set_certificate", slot, certificate, out.res, out.ret)

DescribeCertificate(slot) ==
    IF Lt(slot, PyInt(0)) THEN Raised("NsmError")
    ELSE IF RequireTransport # "ok" THEN Raised(RequireTransport)
    ELSE LET r == TransportDescribeCertificate(CurTransport, slot)
         IN  [res |-> r.res,
              ret |-> IF r.res = "ok" THEN [payload |-> r.data] ELSE None,
              t |-> r.t]

ClientDescribeCertificate(slot) ==
    LET out == DescribeCertificate(slot)
    IN  /\ Install(out.t)
        /\ last' = Call("describe_certificate", slot, <<>>, out.res, out.ret)

RemoveCertificate(slot) ==
    IF Lt(slot, PyInt(0)) THEN Raised("NsmError")
    ELSE IF RequireTransport # "ok" THEN Raised(RequireTransport)
    ELSE LET r == TransportRemoveCertificate(CurTransport, slot)
         IN  [res |-> r.res, ret |-> None, t |-> r.t]

ClientRemoveCertificate(slot) ==
    LET out == RemoveCertificate(slot)
    IN  /\ Install(out.t)
        /\ last' = Call("remove_certificate", slot, <<>>, out.res, out.ret)

GetAttestation(user_data, public_key, nonce, now) ==
    IF RequireTransport # "ok" THEN Raised(RequireTransport)
    ELSE LET r == TransportGetAttestation(CurTransport, user_data, public_key,
                                          nonce, now)
         IN  IF r.res # "ok"
                 THEN [res |-> r.res, ret |-> [cause |-> r.cause],
                       t |-> CurTransport]
             ELSE [res |-> "ok", ret |-> FromPayload(r.payload),
                   t |-> CurTransport]

ClientGetAttestation(inputs, now) ==
    LET out == GetAttestation(inputs.user_data, inputs.public_key,
                              inputs.nonce, now)
    IN  /\ Install(out.t)
        /\ last' = Call("get_attestation", inputs, <<>>, out.res, out.ret)

\* NsmTransport.get_attestation_raw.
TransportGetAttestationRaw(t, user_data, public_key, nonce, now) ==
    TransportGetAttestation(t, user_data, public_key, nonce, now)

GetAttestationRaw(user_data, public_key, nonce, now) ==
    IF RequireTransport # "ok" THEN Raised(RequireTransport)
    ELSE LET r == TransportGetAttestationRaw(CurTransport, user_data,
                                             public_key, nonce, now)
         IN  IF r.res # "ok"
                 THEN [res |-> r.res, ret |-> [cause |-> r.cause],
                       t |-> CurTransport]
             ELSE [res |-> "ok", ret |-> [payload |-> r.payload],
                   t |-> CurTransport]

ClientGetAttestationRaw(inputs, now) ==
    LET out == GetAttestationRaw(inputs.user_data, inputs.public_key,
                                 inputs.nonce, now)
    IN  /\ Install(out.t)
        /\ last' = Call("get_attestation_raw", inputs, <<>>, out.res, out.ret)

\* get_attestation as the steps it takes when other callers use the
\* session between its native calls.  The call holds the transport the
\* client had when it began.

\* The call ends: it raises `res`, or returns the document `ret`.
AttestReturn(res, ret) ==
    /\ last' = Call("get_attestation", attest.inputs, <<>>, res, ret)
    /\ attest' = AttestIdle
    /\ UNCHANGED <<deviceExists, transport, closed, sessionVars,
                   device_path, transport_path>>

\* _require_transport and the is_closed check.
AttestBegin(inputs) ==
    /\ attest.pc = "idle"
    /\ IF RequireTransport # "ok"
       THEN /\ last' = Call("get_attestation", inputs, <<>>, RequireTransport,
                            None)
            /\ UNCHANGED attest
       ELSE IF TransportIsClosed(CurTransport)
       THEN /\ last' = Call("get_attestation", inputs, <<>>,
                            "NsmSessionClosedError", [cause |-> "none"])
            /\ UNCHANGED attest
       ELSE /\ attest' = [AttestIdle EXCEPT !.pc = "pcrs", !.inputs = inputs,
                                            !.seen = {SessionState(Cur)}]
            /\ UNCHANGED last
    /\ UNCHANGED <<deviceExists, transport, closed, sessionVars,
                   device_path, transport_path>>

\* One turn of `{index: self.describe_pcr(index) for index in range(PCR_SLOTS)}`.
AttestReadPcr ==
    /\ attest.pc = "pcrs"
    /\ LET r == TransportDescribePcr(CurTransport, PyInt(attest.slot))
       IN  IF r.res # "ok"
           THEN IF r.res \in NsmErrors
                THEN AttestReturn("NsmAttestationError", [cause |-> r.res])
                ELSE AttestReturn(r.res, [cause |-> "none"])
           ELSE /\ attest' =
                     [attest EXCEPT
                        !.pcrs = Append(@, r.digest),
                        !.slot = IF attest.slot = PCR_SLOTS - 1 THEN 0 ELSE @ + 1,
                        !.pc = IF attest.slot = PCR_SLOTS - 1 THEN "flags"
                               ELSE "pcrs"]
                /\ UNCHANGED <<deviceExists, transport, closed, sessionVars,
                               device_path, transport_path, last>>

\* _attestation_digest over the values read, _locked_flags, then _module_id.
AttestReadFlags ==
    /\ attest.pc = "flags"
    /\ LET f == TransportLockedFlags(CurTransport)
           m == TransportModuleId(CurTransport)
       IN  IF f.res # "ok"
           THEN AttestReturn("NsmAttestationError", [cause |-> f.res])
           ELSE IF m.res # "ok" THEN AttestReturn(m.res, [cause |-> "none"])
           ELSE /\ attest' =
                     [attest EXCEPT
                        !.digest = AttestationDigest(attest.pcrs,
                                       attest.inputs.user_data,
                                       attest.inputs.public_key,
                                       attest.inputs.nonce),
                        !.locked = {i \in DOMAIN f.flags : f.flags[i]},
                        !.module = m.id,
                        !.pc = "certificate"]
                /\ UNCHANGED <<deviceExists, transport, closed, sessionVars,
                               device_path, transport_path, last>>

\* The payload the call returns with `certificate` as its certificate.
AttestPayload(certificate, now) ==
    [module_id |-> attest.module,
     timestamp |-> now,
     digest |-> attest.digest,
     pcrs |-> [i \in PcrIndex |-> attest.pcrs[i + 1]],
     locked_pcrs |-> attest.locked,
     certificate |-> certificate,
     cabundle |-> None,
     user_data |-> attest.inputs.user_data,
     public_key |-> attest.inputs.public_key,
     nonce |-> attest.inputs.nonce]

\* One turn of the loop of _first_certificate; the call returns when the
\* loop does.
AttestReadCertificate(now) ==
    /\ attest.pc = "certificate"
    /\ LET r == NsmDescribeCertificate(CurTransport.sess, PyInt(attest.slot))
       IN  IF r.code = NSM_OK
               THEN AttestReturn("ok", FromPayload(AttestPayload(Some(r.data), now)))
           ELSE IF r.code = NSM_ERR_CERT_MISSING
               THEN IF attest.slot + 1 < CERTIFICATE_SLOTS
                    THEN /\ attest' = [attest EXCEPT !.slot = @ + 1]
                         /\ UNCHANGED <<deviceExists, transport, closed,
                                        sessionVars, device_path,
                                        transport_path, last>>
                    ELSE AttestReturn("ok", FromPayload(AttestPayload(None, now)))
           ELSE AttestReturn(RaiseError(r.code, "certificate"),
                             [cause |-> "none"])

DescribeNsm ==
    IF RequireTransport # "ok" THEN Raised(RequireTransport)
    ELSE LET r == TransportDescribeNsm(CurTransport)
         IN  [res |-> r.res, ret |-> r.ret, t |-> CurTransport]

ClientDescribeNsm ==
    LET out == DescribeNsm
    IN  /\ Install(out.t)
        /\ last' = Call("describe_nsm", None, <<>>, out.res, out.ret)

-----------------------------------------------------------------------------
(* The specification.                                                      *)

\* NsmClient(device_path = path) for a path in `paths`.
InitClient(paths) ==
    /\ deviceExists \in BOOLEAN
    /\ device_path \in paths
    /\ transport = 0
    /\ transport_path = NoPath
    /\ closed = <<>>
    /\ pcrs = NsmSessionNew.pcrs
    /\ locks = NsmSessionNew.locks
    /\ certs = NsmSessionNew.certs
    /\ certificates = {}
    /\ attest = AttestIdle
    /\ last = Call("init", None, <<>>, "ok", None)

Init == InitClient({NoPath})

Next ==
    \/ ClientOpen
    \/ ClientClose
    \/ TransportCloseCall
    \/ \E slot \in PcrSlotInputs : ClientDescribePcr(slot)
    \/ \E call \in ExtendInputs : ClientExtendPcr(call[1], call[2])
    \/ \E slot \in PcrSlotInputs : ClientLockPcr(slot)
    \/ \E lock_range \in LockRangeInputs : ClientLockPcrs(lock_range)
    \/ \E call \in SetCertificateInputs : ClientSetCertificate(call[1], call[2])
    \/ \E slot \in CertSlotInputs : ClientDescribeCertificate(slot)
    \/ \E slot \in CertSlotInputs : ClientRemoveCertificate(slot)
    \/ \E inputs \in AttestationInputs, now \in Timestamps :
          ClientGetAttestation(inputs, now)
    \/ ClientDescribeNsm

Spec == Init /\ [][Next]_vars

-----------------------------------------------------------------------------
(* The certificate store: the same client, called with every kind of       *)
(* certificate slot and payload and with a few PCR operations.             *)

CertStoreSlots ==
    {PyInt(-1), PyInt(0), PyInt(CERTIFICATE_SLOTS - 1), PyInt(CERTIFICATE_SLOTS)}
CertStoreCalls == {<<s, d>> : s \in CertStoreSlots, d \in {<<>>, <<1>>, <<2>>}}
CertLockInputs == {PyInt(1), PyInt(PCR_SLOTS)}
CertExtendInputs == {<<PyInt(0), <<1>>>>, <<PyInt(0), <<>>>>}

NextCert ==
    \/ ClientOpen
    \/ ClientClose
    \/ \E call \in CertExtendInputs : ClientExtendPcr(call[1], call[2])
    \/ \E slot \in CertLockInputs : ClientLockPcr(slot)
    \/ \E call \in CertStoreCalls : ClientSetCertificate(call[1], call[2])
    \/ \E slot \in CertStoreSlots : ClientDescribeCertificate(slot)
    \/ \E slot \in CertStoreSlots : ClientRemoveCertificate(slot)
    \/ ClientDescribeNsm

SpecCert == Init /\ [][NextCert]_vars

-----------------------------------------------------------------------------
(* Attestation: the same client, asked for documents with absent, empty    *)
(* and present optional inputs at two times, over a few PCR, lock and      *)
(* certificate states.                                                     *)

AttestInput(user_data, public_key, nonce) ==
    [user_data |-> user_data, public_key |-> public_key, nonce |-> nonce]
AttestCalls ==
    {AttestInput(None, None, None),
     AttestInput(Some(<<>>), None, None),
     AttestInput(None, Some(<<>>), None),
     AttestInput(None, None, Some(<<>>)),
     AttestInput(Some(<<1>>), Some(<<2>>), Some(<<3>>)),
     AttestInput(Some(<<2>>), Some(<<1>>), Some(<<3>>)),
     AttestInput(Some(<<1>>), None, Some(<<3>>)),
     AttestInput(Some(<<1>>), Some(<<>>), Some(<<3>>))}
AttestTimestamps == {1, 2}
AttestExtendInputs == {<<PyInt(0), <<1>>>>, <<PyInt(PCR_SLOTS - 1), <<1>>>>}
AttestLockInputs == {PyInt(0)}
AttestCertificateInputs == {<<PyInt(1), <<1>>>>}

NextAttest ==
    \/ ClientOpen
    \/ ClientClose
    \/ \E call \in AttestExtendInputs : ClientExtendPcr(call[1], call[2])
    \/ \E slot \in AttestLockInputs : ClientLockPcr(slot)
    \/ \E call \in AttestCertificateInputs :
          ClientSetCertificate(call[1], call[2])
    \/ \E inputs \in AttestCalls, now \in AttestTimestamps :
          ClientGetAttestation(inputs, now)

SpecAttest == Init /\ [][NextAttest]_vars

-----------------------------------------------------------------------------
(* Lifecycle: the client opened, closed and used as a context manager,     *)
(* with every session operation called before, between and after.          *)

LifecycleLengths == {-1, 0, 2}
LifecycleSlots == {PyInt(-1), PyInt(0)}
LifecycleRanges == {PyInt(-1), PyInt(1), TwoPow32}
LifecycleExtendInputs ==
    {<<PyInt(-1), <<1>>>>, <<PyInt(0), <<>>>>, <<PyInt(0), <<1>>>>}
LifecycleCertificateInputs ==
    {<<PyInt(-1), <<1>>>>, <<PyInt(0), <<>>>>, <<PyInt(0), <<1>>>>}

NextLifecycle ==
    \/ ClientEnter
    \/ \E exc \in BOOLEAN : ClientExit(exc)
    \/ ClientOpen
    \/ ClientClose
    \/ \E length \in LifecycleLengths : ClientGetRandom(length)
    \/ \E slot \in LifecycleSlots : ClientDescribePcr(slot)
    \/ \E call \in LifecycleExtendInputs : ClientExtendPcr(call[1], call[2])
    \/ \E slot \in LifecycleSlots : ClientLockPcr(slot)
    \/ \E lock_range \in LifecycleRanges : ClientLockPcrs(lock_range)
    \/ \E call \in LifecycleCertificateInputs :
          ClientSetCertificate(call[1], call[2])
    \/ \E slot \in LifecycleSlots : ClientDescribeCertificate(slot)
    \/ \E slot \in LifecycleSlots : ClientRemoveCertificate(slot)
    \/ \E inputs \in AttestationInputs, now \in Timestamps :
          ClientGetAttestation(inputs, now)
    \/ ClientDescribeNsm

SpecLifecycle == Init /\ [][NextLifecycle]_vars

-----------------------------------------------------------------------------
(* Documents: attestation documents and raw payloads requested over        *)
(* certificate stores with gaps and over several lock states.              *)

DocCertificateInputs ==
    {<<PyInt(0), <<2>>>>, <<PyInt(1), <<1>>>>,
     <<PyInt(CERTIFICATE_SLOTS - 1), <<2>>>>}
DocRemoveInputs == {PyInt(0), PyInt(1)}
DocLockInputs == {PyInt(1), PyInt(PCR_SLOTS - 1)}
DocExtendInputs == {<<PyInt(0), <<1>>>>}

NextDocument ==
    \/ ClientOpen
    \/ ClientClose
    \/ \E call \in DocExtendInputs : ClientExtendPcr(call[1], call[2])
    \/ \E slot \in DocLockInputs : ClientLockPcr(slot)
    \/ \E call \in DocCertificateInputs :
          ClientSetCertificate(call[1], call[2])
    \/ \E slot \in DocRemoveInputs : ClientRemoveCertificate(slot)
    \/ \E inputs \in AttestationInputs, now \in AttestTimestamps :
          ClientGetAttestation(inputs, now)
    \/ \E inputs \in AttestationInputs, now \in AttestTimestamps :
          ClientGetAttestationRaw(inputs, now)

SpecDocument == Init /\ [][NextDocument]_vars

-----------------------------------------------------------------------------
(* Snapshot: a get_attestation call taken step by step while other callers *)
(* extend and lock PCRs, set a certificate and close on the same client.   *)
(* open() is held back while a call is in progress, the call holding the   *)
(* transport it began with.                                                *)

SnapExtendInputs == {<<PyInt(0), <<1>>>>}
SnapLockInputs == {PyInt(0)}
SnapCertificateInputs == {<<PyInt(1), <<1>>>>}

SnapOpen == attest.pc = "idle" /\ ClientOpen

NextSnapshot ==
    \/ SnapOpen
    \/ ClientClose
    \/ \E call \in SnapExtendInputs : ClientExtendPcr(call[1], call[2])
    \/ \E slot \in SnapLockInputs : ClientLockPcr(slot)
    \/ \E call \in SnapCertificateInputs :
          ClientSetCertificate(call[1], call[2])
    \/ \E inputs \in AttestationInputs : AttestBegin(inputs)
    \/ AttestReadPcr
    \/ AttestReadFlags
    \/ \E now \in Timestamps : AttestReadCertificate(now)

SpecSnapshot == Init /\ [][NextSnapshot]_vars

-----------------------------------------------------------------------------
(* Device path: clients constructed without a path, with a path and with a *)
(* path that str(Path(...)) rewrites, opened, used, closed and reopened.   *)

PathExtendInputs == {<<PyInt(0), <<1>>>>}
PathLockInputs == {PyInt(0)}

InitPath == InitClient(DevicePaths)

NextPath ==
    \/ ClientOpen
    \/ ClientClose
    \/ ClientEnter
    \/ \E exc \in BOOLEAN : ClientExit(exc)
    \/ ClientDevicePath
    \/ ClientIsOpen
    \/ \E call \in PathExtendInputs : ClientExtendPcr(call[1], call[2])
    \/ \E slot \in PathLockInputs : ClientLockPcr(slot)
    \/ ClientDescribeNsm

SpecPath == InitPath /\ [][NextPath]_vars

-----------------------------------------------------------------------------
(* Properties.  A step is a client call; `last'` names the call and its    *)
(* outcome, the unprimed variables are the state it was made in.  open()   *)
(* records in its outcome whether the client was open when it was called.  *)

InPcrRange(n) == ~Lt(n, PyInt(0)) /\ Lt(n, PyInt(PCR_SLOTS))
InCertRange(n) == ~Lt(n, PyInt(0)) /\ Lt(n, PyInt(CERTIFICATE_SLOTS))

\* The step stays within the session the client holds.
SameSession == transport # 0 /\ transport' = transport

\* The step changes nothing of the client or of its session.
NothingChanges ==
    UNCHANGED <<deviceExists, transport, closed, pcrs, locks, certs, certificates>>

\* In one session no lock flag goes back to false.
LocksStay == SameSession => \A s \in PcrIndex : locks[s] => locks'[s]

\* describe_pcr of a locked slot of an open session reports it locked.
LockedIsReported ==
    (IsOpen /\ last'.op = "describe_pcr" /\ InPcrRange(last'.arg)
        /\ locks[Index(last'.arg)])
    => (last'.res = "ok" /\ last'.ret.locked)

\* C1 as stated: once a slot in [0,32) of a session is locked, EVERY later
\* extend_pcr(s, data) on the open session fails with NsmPcrLockedError,
\* describe_pcr(s) reports locked = true, and no lock flag is reset.
C1_Original ==
    [][ /\ (IsOpen /\ last'.op = "extend_pcr" /\ InPcrRange(last'.arg)
               /\ locks[Index(last'.arg)])
           => last'.res = "NsmPcrLockedError"
        /\ LockedIsReported
        /\ LocksStay ]_vars

\* C1 amended: once a slot in [0,32) of a session is locked, every later
\* extend_pcr(s, data) with non-empty data on the open session fails with
\* NsmPcrLockedError (empty data is refused by the client with NsmError
\* before the lock is looked at), describe_pcr(s) reports locked = true, and
\* no operation sets a lock flag of the session back to false.
C1_LockedStaysLocked ==
    [][ /\ (IsOpen /\ last'.op = "extend_pcr" /\ InPcrRange(last'.arg)
               /\ Len(last'.data) > 0 /\ locks[Index(last'.arg)])
           => last'.res = "NsmPcrLockedError"
        /\ LockedIsReported
        /\ LocksStay ]_vars

\* An extension of a locked slot was refused, and a describe_pcr reported a lock.
C1_Witness ==
    /\ IsOpen
    /\ last.op = "extend_pcr"
    /\ last.res = "NsmPcrLockedError"
    /\ locks[Index(last.arg)]
    /\ ChainLen(pcrs[Index(last.arg)]) > 0

\* C2: within a session the digest of a locked PCR slot never changes,
\* whatever call is made (so it stays the digest the slot had when it was
\* locked).
C2_LockedDigestFrozen ==
    [][ SameSession => \A s \in PcrIndex : locks[s] => pcrs'[s] = pcrs[s] ]_vars

\* A slot that was extended and then locked has had an extension refused,
\* while another slot is still unlocked.
C2_Witness ==
    /\ IsOpen
    /\ last.op = "extend_pcr" /\ last.res = "NsmPcrLockedError"
    /\ pcrs[Index(last.arg)] # ZeroDigest
    /\ \E s \in PcrIndex : ~locks[s]

\* The client holds a session that has been closed.
ClientClosed == transport # 0 /\ closed[transport]

C3_Ops == {"extend_pcr", "describe_pcr", "set_certificate", "get_attestation"}

\* The arguments of the call pass the client's own checks and the conversion
\* to the native parameter types: the slot is in [0, 2^32), the data or
\* payload is not empty.
ArgumentsAccepted(c) ==
    CASE c.op = "describe_pcr" -> FitsUint32(c.arg)
      [] c.op \in {"extend_pcr", "set_certificate"} ->
            FitsUint32(c.arg) /\ Len(c.data) > 0
      [] OTHER -> TRUE

\* C3 as stated: after close() EVERY call of extend_pcr, describe_pcr,
\* set_certificate and get_attestation fails with NsmSessionClosedError and
\* changes nothing.
C3_Original ==
    [][ (ClientClosed /\ last'.op \in C3_Ops)
        => (last'.res = "NsmSessionClosedError" /\ NothingChanges) ]_vars

\* C3 amended: after close() every call of extend_pcr, describe_pcr,
\* set_certificate and get_attestation fails and changes nothing; it fails
\* with NsmSessionClosedError whenever its arguments are accepted (slot in
\* [0, 2^32), data or payload not empty).
C3_ClosedRejects ==
    [][ (ClientClosed /\ last'.op \in C3_Ops)
        => /\ last'.res # "ok"
           /\ NothingChanges
           /\ ArgumentsAccepted(last') => last'.res = "NsmSessionClosedError"
      ]_vars

\* A set_certificate on a closed session was refused as closed, on a session
\* that holds extended and locked PCRs.
C3_Witness ==
    /\ ClientClosed
    /\ last.op = "set_certificate"
    /\ last.res = "NsmSessionClosedError"
    /\ \E s \in PcrIndex : locks[s] /\ pcrs[s] # ZeroDigest

\* C4: the closed flag of a session is monotonic.  A session that is closed is
\* closed after every call, open() included; the session observed through
\* the client, once closed, is never observed open again: the client can
\* only be open again on a session that open() has newly created.
C4_ClosedMonotonic ==
    [][ /\ \A n \in DOMAIN closed :
              closed[n] => (n \in DOMAIN closed' /\ closed'[n])
        /\ (ClientClosed /\ last'.op # "open") => ~IsOpen'
        /\ (ClientClosed /\ IsOpen') => transport' \notin DOMAIN closed ]_vars

\* The client was reopened: its first session is closed, its second is open.
C4_Witness == transport = 2 /\ closed[1] /\ IsOpen /\ last.op = "open"

\* C5: close() on a client, or on a transport, whose session is already
\* closed raises nothing and changes nothing, whether the native close
\* answers NSM_OK or NSM_ERR_CLOSED.
C5_CloseIdempotent ==
    [][ (ClientClosed /\ last'.op \in {"close", "transport_close"})
        => (last'.res = "ok" /\ NothingChanges) ]_vars

\* A transport was closed again and the native close answered "already closed".
C5_Witness ==
    /\ last.op = "transport_close"
    /\ last.ret.code = NSM_ERR_CLOSED
    /\ last.res = "ok"
    /\ ClientClosed

\* The full effect of the successful call `c` made in the current state.
FullEffect(c) ==
    CASE c.op = "extend_pcr" ->
            /\ pcrs' = [pcrs EXCEPT ![Index(c.arg)] =
                           Sha256(<<pcrs[Index(c.arg)]>> \o c.data)]
            /\ UNCHANGED <<transport, closed, locks, certs, certificates>>
      [] c.op = "lock_pcr" ->
            /\ locks' = [locks EXCEPT ![Index(c.arg)] = TRUE]
            /\ UNCHANGED <<transport, closed, pcrs, certs, certificates>>
      [] c.op = "lock_pcrs" ->
            /\ locks' = [s \in PcrIndex |-> Lt(PyInt(s), c.arg) \/ locks[s]]
            /\ UNCHANGED <<transport, closed, pcrs, certs, certificates>>
      [] c.op = "set_certificate" ->
            /\ certs' = [certs EXCEPT ![Index(c.arg)] = Some(c.data)]
            /\ certificates' = certificates \cup {Index(c.arg)}
            /\ UNCHANGED <<transport, closed, pcrs, locks>>
      [] c.op = "remove_certificate" ->
            /\ certs' = [certs EXCEPT ![Index(c.arg)] = None]
            /\ certificates' = certificates \ {Index(c.arg)}
            /\ UNCHANGED <<transport, closed, pcrs, locks>>
      [] c.op \in {"close", "transport_close"} ->
            /\ closed' = [closed EXCEPT ![transport] = TRUE]
            /\ UNCHANGED <<transport, pcrs, locks, certs, certificates>>
      [] OTHER -> NothingChanges

\* C6: a call on an open session either succeeds and applies its full effect
\* or fails and leaves every PCR digest, lock flag, certificate slot, the
\* transport's certificate record and the closed flag as they were.
C6_AllOrNothing ==
    [][ IsOpen => IF last'.res = "ok" THEN FullEffect(last')
                  ELSE NothingChanges ]_vars

\* A certificate store was refused on an open session that holds a
\* certificate, an extended PCR and a locked PCR.
C6_Witness ==
    /\ IsOpen
    /\ last.op = "set_certificate" /\ last.res = "NsmCertificateError"
    /\ \E c \in CertIndex : certs[c].some
    /\ \E s \in PcrIndex : pcrs[s] # ZeroDigest
    /\ \E s \in PcrIndex : locks[s]

\* C7: on an open session, extend_pcr(s, data) with s in [0,32) unlocked and
\* data not empty succeeds, sets the digest of s to SHA256(old || data) and
\* returns it, leaves every other digest and every lock flag alone; a
\* describe_pcr(s) made next returns that digest, and extending again with
\* the same data gives another digest.
C7_ExtendChains ==
    [][ \A call \in ExtendInputs :
        LET slot == call[1]
            data == call[2]
            s == Index(slot)
            new == Sha256(<<pcrs[s]>> \o data)
        IN  (IsOpen /\ last'.op = "extend_pcr" /\ last'.arg = slot
                /\ last'.data = data /\ InPcrRange(slot) /\ Len(data) > 0
                /\ ~locks[s])
            => /\ last'.res = "ok"
               /\ pcrs'[s] = new
               /\ last'.ret = PcrValue(slot, new, FALSE)
               /\ new # pcrs[s]
               /\ \A o \in PcrIndex \ {s} : pcrs'[o] = pcrs[o]
               /\ locks' = locks
               /\ DescribePcr(slot)'.res = "ok"
               /\ DescribePcr(slot)'.ret.digest = new
               /\ ExtendPcr(slot, data)'.res = "ok"
               /\ ExtendPcr(slot, data)'.ret.digest # new ]_vars

\* A slot was extended a second time with the data of its first extension,
\* while another slot holds a digest of its own.
C7_Witness ==
    /\ last.op = "extend_pcr" /\ last.res = "ok"
    /\ LET s == Index(last.arg)
       IN  /\ pcrs[s] = Sha256(<<Sha256(<<ZeroDigest>> \o last.data)>> \o last.data)
           /\ last.ret.digest = pcrs[s]

\* C8 as stated: lock_pcrs(k) on an open session succeeds for EVERY k >= 0;
\* afterwards the slots below k are locked, the others keep their lock state
\* and no digest has changed.
C8_Original ==
    [][ (IsOpen /\ last'.op = "lock_pcrs" /\ ~Lt(last'.arg, PyInt(0)))
        => /\ last'.res = "ok"
           /\ \A s \in PcrIndex :
                 locks'[s] = (Lt(PyInt(s), last'.arg) \/ locks[s])
           /\ pcrs' = pcrs ]_vars

\* C9: when open() has succeeded on a client that was not open, describe_pcr(s)
\* reports 32 zero bytes and locked = false for every s in [0,32), and an
\* attestation document built then has an empty locked_pcrs set.
C9_FreshSession ==
    (last.op = "open" /\ last.res = "ok" /\ ~last.ret.was_open)
    => /\ IsOpen
       /\ \A s \in PcrIndex :
             LET d == DescribePcr(PyInt(s))
             IN  /\ d.res = "ok"
                 /\ d.ret = PcrValue(PyInt(s), ZeroDigest, FALSE)
       /\ \A inputs \in AttestationInputs, now \in Timestamps :
             LET doc == GetAttestation(inputs.user_data, inputs.public_key,
                                       inputs.nonce, now)
             IN  /\ doc.res = "ok"
                 /\ doc.ret.locked_pcrs = {}
                 /\ \A s \in PcrIndex : ~doc.ret.pcrs[s].locked

\* The client has just opened its second session; the first one is closed.
C9_Witness ==
    /\ last.op = "open" /\ last.res = "ok" /\ ~last.ret.was_open
    /\ transport = 2 /\ closed[1] /\ IsOpen

\* C10 as stated: on an open session describe_pcr, extend_pcr and lock_pcr
\* fail with NsmInvalidPcrError for EVERY slot outside [0,32), negative slots
\* included, and change nothing.
C10_Original ==
    [][ (IsOpen /\ last'.op \in {"describe_pcr", "extend_pcr", "lock_pcr"}
            /\ ~InPcrRange(last'.arg))
        => (last'.res = "NsmInvalidPcrError" /\ NothingChanges) ]_vars

-----------------------------------------------------------------------------
(* Properties of the certificate store, checked under SpecCert.            *)

\* What describe_certificate(c) shows of the in-range slot c.
Shown(c) == [res |-> DescribeCertificate(PyInt(c)).res,
             ret |-> DescribeCertificate(PyInt(c)).ret]

\* C11: on an open session, for every slot in [0,4) and every non-empty
\* payload, set_certificate(slot, payload) succeeds and a describe_certificate
\* made next returns that payload, whatever the slot held; remove_certificate
\* succeeds and a describe_certificate made next fails with
\* NsmCertificateError; what describe_certificate shows of the other slots is
\* the same before and after both.
C11_CertificateRoundTrip ==
    [][ \A slot \in CertStoreSlots :
        (IsOpen /\ InCertRange(slot) /\ last'.arg = slot)
        => /\ (last'.op = "set_certificate" /\ Len(last'.data) > 0)
              => /\ last'.res = "ok"
                 /\ DescribeCertificate(slot)'.res = "ok"
                 /\ DescribeCertificate(slot)'.ret = [payload |-> last'.data]
                 /\ \A c \in CertIndex \ {Index(slot)} : Shown(c)' = Shown(c)
           /\ last'.op = "remove_certificate"
              => /\ last'.res = "ok"
                 /\ DescribeCertificate(slot)'.res = "NsmCertificateError"
                 /\ \A c \in CertIndex \ {Index(slot)} : Shown(c)' = Shown(c)
      ]_vars

\* A payload has overwritten another one while the other slot holds its own,
\* and is shown by describe_certificate.
C11_Witness ==
    /\ IsOpen
    /\ last.op = "describe_certificate" /\ last.res = "ok"
    /\ last.arg = PyInt(0) /\ last.ret = [payload |-> <<2>>]
    /\ certs[CERTIFICATE_SLOTS - 1] = Some(<<1>>)
    /\ certificates = {0, CERTIFICATE_SLOTS - 1}

C16_DescribeNsmAgrees ==
    IsOpen
    => /\ DescribeNsm.res = "ok"
       /\ DescribeNsm.ret.locked_pcrs = {s \in PcrIndex : locks[s]}
       /\ DescribeNsm.ret.certificates
             = Cardinality({c \in CertIndex : certs[c].some})
       /\ DescribeNsm.ret.pcr_slots = 32
       /\ DescribeNsm.ret.certificate_slots = 4
       /\ DescribeNsm.t = CurTransport

\* describe_nsm was called after a lock, a refused store, a store and a removal.
C16_Witness ==
    /\ IsOpen
    /\ last.op = "describe_nsm" /\ last.res = "ok"
    /\ last.ret.locked_pcrs = {1}
    /\ last.ret.certificates = 1
    /\ certs[0] = None /\ certs[CERTIFICATE_SLOTS - 1].some
    /\ pcrs[0] # ZeroDigest

\* The error classes the certificate operations raise on an open session:
\* for an empty slot in range, for a slot out of range, for an empty payload.
KindCertificateMissing ==
    {DescribeCertificate(PyInt(c)).res : c \in {c \in CertIndex : ~certs[c].some}}
KindInvalidCertificateSlot ==
    UNION { {SetCertificate(slot, <<1>>).res, DescribeCertificate(slot).res,
             RemoveCertificate(slot).res} :
            slot \in {n \in CertStoreSlots : ~InCertRange(n)} }
KindInvalidLength == {SetCertificate(PyInt(c), <<>>).res : c \in CertIndex}

\* C17 as stated: the errors of the three cases are raised as NsmError
\* classes and no class is raised for two of the cases, so that the class
\* alone tells CertificateMissing, InvalidCertificateSlot and InvalidLength
\* apart.
C17_Original ==
    IsOpen
    => /\ KindCertificateMissing \cup KindInvalidCertificateSlot
             \cup KindInvalidLength \subseteq NsmErrors
       /\ KindCertificateMissing \cap KindInvalidCertificateSlot = {}
       /\ KindCertificateMissing \cap KindInvalidLength = {}
       /\ KindInvalidCertificateSlot \cap KindInvalidLength = {}

\* remove_certificate(slot), slot in [0,4), succeeds on an open session
\* whether the slot holds a payload or not; afterwards the slot is empty and
\* a second removal succeeds and leaves the session as the first one left it.
RemoveIsIdempotent ==
    \A slot \in CertStoreSlots :
        (IsOpen /\ last'.op = "remove_certificate" /\ last'.arg = slot
            /\ InCertRange(slot))
        => /\ last'.res = "ok"
           /\ certs'[Index(slot)] = None
           /\ Index(slot) \notin certificates'
           /\ RemoveCertificate(slot)'.res = "ok"
           /\ RemoveCertificate(slot)'.t = CurTransport'

\* C21 as stated: remove_certificate is idempotent for a slot in [0,4), and
\* for EVERY slot outside [0,4), negative slots included, it fails with the
\* error of an invalid certificate slot, NsmCertificateError, and changes
\* nothing.
C21_Original ==
    [][ /\ RemoveIsIdempotent
        /\ (IsOpen /\ last'.op = "remove_certificate" /\ ~InCertRange(last'.arg))
           => (last'.res = "NsmCertificateError" /\ NothingChanges)
      ]_vars

\* The part of C21 that holds: idempotence in range, NsmCertificateError for
\* a slot of 4 or more that fits the native slot type.
RemoveInRangeOrAbove ==
    [][ /\ RemoveIsIdempotent
        /\ (IsOpen /\ last'.op = "remove_certificate"
               /\ ~Lt(last'.arg, PyInt(CERTIFICATE_SLOTS)))
           => (last'.res = "NsmCertificateError" /\ NothingChanges)
      ]_vars

-----------------------------------------------------------------------------
(* Properties of the attestation digest, checked under SpecAttest.         *)

\* The digest of the document get_attestation returns for `inputs` at `now`.
DocumentDigest(inputs, now) ==
    GetAttestation(inputs.user_data, inputs.public_key, inputs.nonce, now).ret.digest

\* The digest of the document the transport `t` builds for `inputs` at `now`.
TransportDigest(t, inputs, now) ==
    FromPayload(TransportGetAttestation(t, inputs.user_data, inputs.public_key,
                                        inputs.nonce, now).payload).digest

\* The PCR slots whose digest the step changes.
ChangedPcrs == {s \in PcrIndex : pcrs'[s] # pcrs[s]}

\* C13: a document request answered on an open session is followed by a
\* step of that session.  When the step leaves every PCR digest and every
\* certificate slot as it was (a lock, say, or another request), a request
\* with the same optional inputs made after it, at another time, gives the
\* digest the first request gave; when the step changes the digest of
\* exactly one PCR slot, such a request gives another digest.
C13_DigestFollowsPcrs ==
    [][ (last.op = "get_attestation" /\ last.res = "ok" /\ IsOpen'
            /\ SameSession)
        => /\ (pcrs' = pcrs /\ certs' = certs /\ last'.op = "get_attestation"
                  /\ last'.arg = last.arg)
              => (last'.res = "ok" /\ last'.ret.digest = last.ret.digest)
           /\ (pcrs' = pcrs /\ certs' = certs /\ last'.op # "get_attestation")
              => \A inputs \in AttestCalls,
                    now \in AttestTimestamps \ {last.ret.timestamp} :
                    last.arg = inputs
                    => TransportDigest(CurTransport', inputs, now) = last.ret.digest
           /\ Cardinality(ChangedPcrs) = 1
              => \A inputs \in AttestCalls,
                    now \in AttestTimestamps \ {last.ret.timestamp} :
                    last.arg = inputs
                    => TransportDigest(CurTransport', inputs, now) # last.ret.digest
      ]_vars

\* A document was requested with all inputs present, later, after the last
\* PCR slot was extended and a slot was locked.
C13_Witness ==
    /\ IsOpen
    /\ last.op = "get_attestation" /\ last.res = "ok"
    /\ last.ret.timestamp = 2
    /\ last.arg = AttestInput(Some(<<1>>), Some(<<2>>), Some(<<3>>))
    /\ pcrs[PCR_SLOTS - 1] # ZeroDigest
    /\ locks[0]

\* The bytes an optional input stands for.
Bytes(o) == IF o.some THEN o.val ELSE <<>>

\* The optional input that is absent where `o` is empty and empty where `o`
\* is absent.
Other(o) == IF o = None THEN Some(<<>>) ELSE IF o = Some(<<>>) THEN None ELSE o

\* C14: the digest of a document is SHA256 over the digests of PCR 0 .. 31
\* in this order, then user_data, then public_key, then nonce, an absent
\* input adding nothing; for each of the three inputs, None in the place of
\* b"" (and b"" in the place of None) gives the same digest.
C14_DigestComposition ==
    (last.op = "get_attestation" /\ last.res = "ok")
    => /\ last.ret.digest
            = Sha256([k \in 1 .. PCR_SLOTS |-> pcrs[k - 1]]
                     \o Bytes(last.arg.user_data)
                     \o Bytes(last.arg.public_key)
                     \o Bytes(last.arg.nonce))
       /\ \A now \in AttestTimestamps \ {last.ret.timestamp} :
            /\ DocumentDigest([last.arg EXCEPT !.user_data = Other(@)], now)
                  = last.ret.digest
            /\ DocumentDigest([last.arg EXCEPT !.public_key = Other(@)], now)
                  = last.ret.digest
            /\ DocumentDigest([last.arg EXCEPT !.nonce = Other(@)], now)
                  = last.ret.digest

\* A document was built with all three inputs present over an extended PCR.
C14_Witness ==
    /\ last.op = "get_attestation" /\ last.res = "ok"
    /\ last.arg = AttestInput(Some(<<2>>), Some(<<1>>), Some(<<3>>))
    /\ pcrs[0] # ZeroDigest /\ pcrs[PCR_SLOTS - 1] # ZeroDigest

-----------------------------------------------------------------------------
(* Empty extension data, checked under Spec.                               *)

\* C18: extend_pcr(s, b"") on an open session, s in [0, 32), raises NsmError
\* (the error the client gives for an invalid length) and changes nothing:
\* the digest and the lock flag of s are as before, whether s is locked or
\* not.
C18_EmptyExtendRejected ==
    [][ (IsOpen /\ last'.op = "extend_pcr" /\ InPcrRange(last'.arg)
            /\ last'.data = <<>>)
        => /\ last'.res = "NsmError"
           /\ pcrs'[Index(last'.arg)] = pcrs[Index(last'.arg)]
           /\ locks'[Index(last'.arg)] = locks[Index(last'.arg)]
           /\ NothingChanges
      ]_vars

\* extend_pcr with empty data was rejected on a locked slot that had been
\* extended before.
C18_Witness ==
    /\ IsOpen
    /\ last.op = "extend_pcr" /\ last.data = <<>> /\ last.res = "NsmError"
    /\ InPcrRange(last.arg)
    /\ locks[Index(last.arg)]
    /\ pcrs[Index(last.arg)] # ZeroDigest

-----------------------------------------------------------------------------
(* Properties of attestation documents, checked under SpecDocument.        *)

\* The certificate slots that hold a payload.
PresentCertificates == {c \in CertIndex : certs[c].some}

\* C24: get_attestation on an open session succeeds and changes nothing; the
\* certificate of its document is the payload of the lowest certificate
\* slot that holds one, and is absent exactly when all four slots are
\* empty; looking the certificate up does not fail.
C24_FirstCertificate ==
    [][ (IsOpen /\ last'.op = "get_attestation")
        => /\ last'.res = "ok"
           /\ NothingChanges
           /\ TransportFirstCertificate(CurTransport).res = "ok"
           /\ (last'.ret.certificate = None) <=> (PresentCertificates = {})
           /\ \A c \in PresentCertificates :
                 (\A b \in PresentCertificates : c <= b)
                 => last'.ret.certificate = Some(certs[c].val)
      ]_vars

\* A document carries the payload of slot 1 while slot 0 is empty and the
\* last slot holds another payload.
C24_Witness ==
    /\ IsOpen
    /\ last.op = "get_attestation" /\ last.res = "ok"
    /\ certs[0] = None /\ certs[1] = Some(<<1>>)
    /\ certs[CERTIFICATE_SLOTS - 1] = Some(<<2>>)
    /\ last.ret.certificate = Some(<<1>>)

\* C25: a document built on an open session has a pcrs entry for each of the
\* 32 slots; its locked_pcrs is the set of slots whose entry is tagged
\* locked, and is the set of slots locked in the session; a raw payload
\* requested on the same state, at any time, has the module_id and the
\* locked_pcrs of the document.
C25_LockedPcrsAgree ==
    [][ \A inputs \in AttestationInputs :
        (IsOpen /\ last'.op = "get_attestation" /\ last'.arg = inputs)
        => /\ last'.res = "ok"
           /\ DOMAIN last'.ret.pcrs = PcrIndex
           /\ last'.ret.locked_pcrs
                 = {s \in PcrIndex : last'.ret.pcrs[s].locked}
           /\ last'.ret.locked_pcrs = {s \in PcrIndex : locks[s]}
           /\ \A now \in AttestTimestamps :
                 LET raw == GetAttestationRaw(inputs.user_data,
                                inputs.public_key, inputs.nonce, now)
                 IN  /\ raw.res = "ok"
                     /\ raw.ret.payload.module_id = last'.ret.module_id
                     /\ raw.ret.payload.locked_pcrs = last'.ret.locked_pcrs
      ]_vars

\* A document was built while slots 1 and 31 were locked and slot 0 extended.
C25_Witness ==
    /\ IsOpen
    /\ last.op = "get_attestation" /\ last.res = "ok"
    /\ last.ret.locked_pcrs = {1, PCR_SLOTS - 1}
    /\ pcrs[0] # ZeroDigest

-----------------------------------------------------------------------------
(* Properties of a document built among other callers, checked under       *)
(* SpecSnapshot.                                                           *)

\* The step ends a get_attestation call that had begun on an open session.
AttestEnds == attest.pc # "idle" /\ attest'.pc = "idle"

\* The document shows the PCR digests and lock flags of the state `st`, and
\* its digest is the one of these PCR digests and the inputs.
ShowsState(doc, inputs, st) ==
    /\ \A s \in PcrIndex : doc.pcrs[s].digest = st.pcrs[s]
    /\ doc.locked_pcrs = {s \in PcrIndex : st.locks[s]}
    /\ \A s \in PcrIndex : doc.pcrs[s].locked = st.locks[s]
    /\ doc.digest = AttestationDigest([k \in 1 .. PCR_SLOTS |-> st.pcrs[k - 1]],
                                      inputs.user_data, inputs.public_key,
                                      inputs.nonce)

\* C22 as stated: whatever extend_pcr and lock_pcr calls of other callers
\* fall between the reads of a get_attestation call, the pcrs, locked_pcrs
\* and digest of the document it returns are those of one state the session
\* was in during the call.
C22_Original ==
    [][ (AttestEnds /\ last'.res = "ok")
        => \E st \in attest.seen : ShowsState(last'.ret, last'.arg, st)
      ]_vars

\* A call that no other caller's call falls into returns the document the
\* one-step get_attestation returns.
StepwiseAgrees ==
    [][ (AttestEnds /\ Cardinality(attest.seen) = 1 /\ IsOpen)
        => \E now \in Timestamps :
              /\ last'.res = GetAttestation(attest.inputs.user_data,
                      attest.inputs.public_key, attest.inputs.nonce, now).res
              /\ last'.ret = GetAttestation(attest.inputs.user_data,
                      attest.inputs.public_key, attest.inputs.nonce, now).ret
      ]_vars

\* C23 as stated: a get_attestation call begun on an open session that
\* fails while it reads PCR digests, lock flags, the module id or the
\* certificate raises NsmAttestationError with the failure as its cause.
C23_Original ==
    [][ (AttestEnds /\ last'.res # "ok")
        => (last'.res = "NsmAttestationError" /\ last'.ret.cause \in NsmErrors)
      ]_vars

\* The part of C23 that holds: a failure while the call reads PCR digests or
\* lock flags is raised as NsmAttestationError with the failure as cause.
ReadFailuresWrapped ==
    [][ (AttestEnds /\ last'.res # "ok" /\ attest.pc \in {"pcrs", "flags"})
        => (last'.res = "NsmAttestationError" /\ last'.ret.cause \in NsmErrors)
      ]_vars

-----------------------------------------------------------------------------
(* Properties of the client's lifecycle, checked under SpecLifecycle.      *)

\* The session operations of the client.
SessionOps ==
    {"get_random", "describe_pcr", "extend_pcr", "lock_pcr", "lock_pcrs",
     "set_certificate", "describe_certificate", "remove_certificate",
     "get_attestation", "describe_nsm"}

\* No native session was ever allocated for the client.
NoSession == transport = 0 /\ closed = <<>>

\* What a session operation raises on a client that holds no transport:
\* NsmError, or its subclass NsmRandomError for a length that is not positive.
WithoutTransport(c) ==
    IF c.op = "get_random" /\ c.arg.length <= 0 THEN "NsmRandomError"
    ELSE "NsmError"

\* C15: when the device path does not exist, open() (and __enter__, which
\* calls it) raises NsmDeviceNotFoundError and creates no session: the
\* client is not open after it, no native session is allocated, nothing of
\* the client changes; and an operation called after the failed open fails
\* as it does on a client that was never opened, changing nothing.
C15_NoDeviceNoSession ==
    [][ /\ (~deviceExists /\ last'.op \in {"open", "__enter__"})
           => /\ last'.res = "NsmDeviceNotFoundError"
              /\ NothingChanges
              /\ NoSession'
              /\ ~IsOpen'
        /\ (last.res = "NsmDeviceNotFoundError" /\ last'.op \in SessionOps)
           => /\ last'.res = WithoutTransport(last')
              /\ NothingChanges
              /\ NoSession'
              /\ ~IsOpen'
      ]_vars

\* open() has just failed for the missing device, on a client without session.
C15_Witness ==
    /\ ~deviceExists
    /\ last.op = "open" /\ last.res = "NsmDeviceNotFoundError"
    /\ NoSession /\ ~IsOpen

\* C19: a client used as a context manager is not open when it has just
\* been constructed, is open once __enter__ has returned, and is not open
\* once __exit__ has run, whether the block ended normally or by an
\* exception (which __exit__ does not suppress); __enter__ returns the
\* client itself.
C19_ContextManager ==
    /\ last.op = "init" => ~IsOpen
    /\ (last.op = "__enter__" /\ last.res = "ok")
       => (IsOpen /\ last.ret.returned = "self")
    /\ last.op = "__exit__"
       => (last.res = "ok" /\ ~IsOpen /\ ~last.ret.suppress)

\* A block entered on an open session was left by an exception.
C19_Witness ==
    /\ last.op = "__exit__" /\ last.arg.exc /\ last.ret.was_open
    /\ transport # 0 /\ ~IsOpen

\* C20: on a client that was never opened every session operation raises
\* NsmError (get_random with a length that is not positive its subclass
\* NsmRandomError), allocates no session, changes nothing and leaves the
\* client not open.
C20_NeverOpened ==
    [][ (NoSession /\ last'.op \in SessionOps)
        => /\ last'.res \in NsmErrors
           /\ last'.res = WithoutTransport(last')
           /\ NoSession'
           /\ NothingChanges
           /\ ~IsOpen'
      ]_vars

\* get_attestation was refused on a client that could have been opened but
\* never was.
C20_Witness ==
    /\ deviceExists /\ NoSession /\ ~IsOpen
    /\ last.op = "get_attestation" /\ last.res = "NsmError"

\* C27: open() on a client whose session is open, and __enter__ likewise,
\* succeeds, allocates no session and changes nothing: the client holds the
\* session it held, still open, with every PCR digest, lock flag and
\* certificate slot as it was.
C27_OpenOnOpen ==
    [][ (IsOpen /\ last'.op \in {"open", "__enter__"})
        => /\ last'.res = "ok"
           /\ last'.ret.was_open
           /\ transport' = transport
           /\ closed' = closed
           /\ pcrs' = pcrs /\ locks' = locks /\ certs' = certs
           /\ certificates' = certificates
           /\ IsOpen'
      ]_vars

\* open() was called on an open session with an extended and locked PCR and
\* a certificate, which are all still there.
C27_Witness ==
    /\ last.op = "open" /\ last.res = "ok" /\ last.ret.was_open
    /\ IsOpen
    /\ pcrs[0] # ZeroDigest /\ locks[0] /\ certs[0].some

\* C28: when open() (or __enter__) succeeds on a client whose session is
\* closed, the client holds a session that did not exist before, in the
\* initial state: every PCR digest zero and unlocked, every certificate slot
\* empty, no certificate counted; what describe_pcr, describe_certificate
\* and describe_nsm show is that of a new session, nothing of the closed one.
C28_ReopenIsFresh ==
    [][ (ClientClosed /\ last'.op \in {"open", "__enter__"}
            /\ last'.res = "ok")
        => /\ transport' \notin DOMAIN closed
           /\ IsOpen'
           /\ \A n \in DOMAIN closed : closed'[n] = closed[n]
           /\ pcrs' = [s \in PcrIndex |-> ZeroDigest]
           /\ locks' = [s \in PcrIndex |-> FALSE]
           /\ certs' = [c \in CertIndex |-> None]
           /\ certificates' = {}
           /\ \A s \in PcrIndex :
                 LET d == TransportDescribePcrRaw(CurTransport', PyInt(s))
                 IN  d.res = "ok" /\ d.digest = ZeroDigest /\ ~d.locked
           /\ \A c \in CertIndex :
                 TransportDescribeCertificate(CurTransport', PyInt(c)).res
                     = "NsmCertificateError"
           /\ LET nsm == TransportDescribeNsm(CurTransport')
              IN  /\ nsm.res = "ok"
                  /\ nsm.ret.certificates = 0
                  /\ nsm.ret.locked_pcrs = {}
      ]_vars

\* The client was entered again after its first session was closed.
C28_Witness ==
    /\ last.op = "__enter__" /\ last.res = "ok" /\ ~last.ret.was_open
    /\ transport = 2 /\ closed[1] /\ IsOpen

-----------------------------------------------------------------------------
(* Properties of the device path, checked under SpecPath.                  *)

\* C26: is_open and device_path never raise and change nothing; on a client
\* whose session is closed is_open is false; device_path of a client that
\* holds a session, open or closed, is the path of that session, and no
\* call changes the path of the session the client holds, so that after
\* close() device_path returns what it returned while the session was open.
C26_PathSurvivesClose ==
    [][ /\ last'.op \in {"device_path", "is_open"}
           => (last'.res = "ok" /\ NothingChanges)
        /\ (ClientClosed /\ last'.op = "is_open") => ~last'.ret.value
        /\ (transport # 0 /\ last'.op = "device_path")
           => last'.ret.path = transport_path
        /\ SameSession => transport_path' = transport_path
      ]_vars

\* device_path was read after close() on a client constructed with a path
\* that the transport rewrote.
C26_Witness ==
    /\ ClientClosed
    /\ last.op = "device_path" /\ last.res = "ok"
    /\ device_path = "/tmp//nsm" /\ last.ret.path = "/tmp/nsm"

====
